---- MODULE Spec2Model ----
(***************************************************************************)
(* A model of the SCP client's transfer calls (package scp):               *)
(*   CopyPassThru                            ("upload")                    *)
(*   CopyFromRemotePassThru                  ("plain")                     *)
(*   CopyFromRemoteProgressPassThru          ("progress")                  *)
(*   CopyFromRemotePreserveProgressPassThru  ("preserve")                  *)
(* One transfer call is modelled per behaviour: the calling goroutine, the *)
(* protocol goroutine, the process-exit goroutine (upload), the body-copy  *)
(* goroutine (progress variants), the helper goroutine of wait(), the      *)
(* error channel, the wait group and the context.  The remote peer, the    *)
(* streams and the context are the environment: every read, write and      *)
(* response is a nondeterministic choice.                                  *)
(***************************************************************************)
EXTENDS Integers, Sequences, FiniteSets

\* Largest declared file size (bytes) explored.
MaxSize == 2

\* make(chan error, 2) in CopyPassThru; make(chan error, 4) in the downloads.
ErrChCapUpload == 2
ErrChCapDownload == 4

Kinds == {"upload", "plain", "progress", "preserve"}

ProgressKinds == {"progress", "preserve"}

\* The first byte of a line read from the peer: 0x00, 0x01, 0x02, 'C', 'T',
\* anything else.
RespTypes == {"ok", "warn", "fail", "C", "T", "other"}

\* What ParseResponse can return: a response of some type, or a read error.
ReadOutcomes == RespTypes \cup {"readErr"}

VARIABLES
    kind,         \* which transfer call runs
    size,         \* upload: the size argument; download: the size the header declares
    srcLen,       \* upload: bytes the source reader supplies before EOF
    timeoutSet,   \* a.Timeout > 0
    peerAnswers,  \* the peer writes a response to what it is sent
    ctxDone,      \* Done() of the ctx the call waits on is closed
    callerCtxDone, \* Done() of the context the caller passed in is closed
    timer,        \* the deadline of context.WithTimeout: off, armed, fired, stopped
    cPc,          \* the calling goroutine's position
    result,       \* the error the call returned ("none" while running)
    pStat,        \* protocol goroutine: idle, run, send, close, dsend, wgdone, done
    pIdx,         \* protocol goroutine: index of the current step
    pErr,         \* the error of the failing step, sent at the step
    gerr,         \* the goroutine's err variable, sent by the deferred function
    inDefer,      \* download: defer in.Close() is registered
    wStat,        \* upload's process-exit goroutine: none, wait, send, wgdone, done
    exitStatus,   \* what session.Wait returned ("none" before it returns)
    bStat,        \* progress variants: the "go pw.Start()" goroutine
    copied,       \* body bytes copied so far
    hStat,        \* helper goroutine of wait(): none, waiting, closed
    wg,           \* the wait group's counter
    errCh,        \* buffered error channel: the values not yet received
    errChClosed,  \* close(errCh) happened
    sent,         \* history: every send on errCh, <<unit, error>>, in order
    trace,        \* history: the client's protocol events, in order
    resps,        \* history: the outcome of every ParseResponse call, in order
    stdinClosed,  \* the session's input stream is closed
    failAt,       \* history: protocol bytes written when a step first failed, -1 before
    p,            \* the package variable p: the progress program it points at (0: nil)
    xPc,          \* two concurrent progress transfers: each one's position
    xRan,         \* the program each transfer's p.Run() ran (0: none yet)
    xBody,        \* each transfer's "go pw.Start()" goroutine: none, copy, done
    xLeft,        \* body bytes each transfer's copy has yet to move
    delivered,    \* history: <<sending transfer, receiving program, message>>
    total,        \* progressWriter.total
    onProgress,   \* progressWriter.onProgress is set
    downloaded,   \* progressWriter.downloaded
    chunks,       \* history: the length of every chunk passed to Write, in order
    calls         \* history: the <<count, total>> of every callback invocation, in order

vars == <<kind, size, srcLen, timeoutSet, peerAnswers, ctxDone, callerCtxDone, timer, cPc, result, pStat, pIdx, pErr, gerr,
          inDefer, wStat, exitStatus, bStat, copied, hStat, wg, errCh,
          errChClosed, sent, trace, resps, stdinClosed, failAt,
          p, xPc, xRan, xBody, xLeft, delivered,
          total, onProgress, downloaded, chunks, calls>>

inputVars == <<kind, size, srcLen, timeoutSet, peerAnswers>>
ctxVars == <<callerCtxDone, timer>>
callerVars == <<cPc, result>>
protoVars == <<pStat, pIdx, pErr, gerr, inDefer>>
waiterVars == <<wStat, exitStatus>>
chanVars == <<errCh, errChClosed, sent>>
histVars == <<trace, resps, failAt>>
sharedVars == <<p, xPc, xRan, xBody, xLeft, delivered>>
pwVars == <<total, onProgress, downloaded, chunks, calls>>
auxVars == <<sharedVars, pwVars>>

-----------------------------------------------------------------------------
(* The protocol codec.  Its code is not among the sources; it is modelled   *)
(* from the specification's description of Response, ack and the parsers.   *)

\* Response.IsFailure: the peer's line is flagged 0x02 (failure, fatal).
IsFailure(t) == t = "fail"

\* Response.NoStandardProtocolType: the line is not a 'C' or 'T' control line.
NoStandardProtocolType(t) == t \notin {"C", "T"}

\* Response.ParseFileInfos: the line must follow C<mode> <size> <name>.
ParseFileInfos(t) == IF t = "C" THEN "nil" ELSE "fmtErr"

\* Response.ParseFileTime: the line must follow T<mtime> 0 <atime> 0.
ParseFileTime(t) == IF t = "T" THEN "nil" ELSE "fmtErr"

\* CopyN(w, r, n): the number of bytes a successful copy moves.
CopyN(n) == n

-----------------------------------------------------------------------------
(* Pure helpers of the transfer calls.                                      *)

\* A checkResponse that lets a failure response pass.
checkResponse_IgnoreFailure(o) == IF o = "readErr" THEN "readErr" ELSE "nil"

\* checkResponse: the error it returns for an outcome of ParseResponse.
checkResponse(o) ==
    IF o = "readErr" THEN "readErr"
    ELSE IF IsFailure(o) THEN "peerMsg"
    ELSE "nil"

\* io.Copy(w, r) in upload: copies until the source's EOF; size plays no part.
IoCopyLen(src, sz) == src

\* Number of body bytes a successful body copy moves.
CopyLimit == IF kind = "upload" THEN IoCopyLen(srcLen, size) ELSE CopyN(size)

\* A timestamp check that aborts on either condition alone.
TimeLineAborts_Either(t) == IsFailure(t) \/ NoStandardProtocolType(t)

\* The check after the timestamp line's response (preserve mode).
TimeLineAborts(t) == IsFailure(t) /\ NoStandardProtocolType(t)

\* A preserve-mode header check that lets a failure pass unless the line has
\* standard framing.
HeaderAborts_WaiveNonStandard(k, t) ==
    IF k = "preserve" THEN IsFailure(t) /\ ~NoStandardProtocolType(t)
    ELSE IsFailure(t)

\* The check after the header line's response, per download variant.
HeaderAborts(k, t) ==
    IF k = "preserve" THEN IsFailure(t) /\ NoStandardProtocolType(t)
    ELSE IsFailure(t)

\* The steps of each protocol goroutine, in program order.
UploadSteps == <<"hdr", "resp", "body", "term", "resp">>

\* A plain download that reads the header before announcing readiness.
PlainSteps_ReadFirst ==
    <<"pipes", "start", "readH", "ack", "ack", "body", "ack", "wait">>

\* A plain download that omits the ack after the body.
PlainSteps_NoFinalAck ==
    <<"pipes", "start", "ack", "readH", "ack", "body", "wait">>

\* A plain download that writes its first ack before starting the command.
PlainSteps_AckBeforeStart ==
    <<"pipes", "ack", "start", "readH", "ack", "body", "ack", "wait">>

PlainSteps == <<"pipes", "start", "ack", "readH", "ack", "body", "ack", "wait">>

ProgressSteps ==
    <<"pipes", "start", "ack", "readH", "ack", "go", "ack", "prun", "wait">>

PreserveSteps ==
    <<"pipes", "start", "ack", "readT", "ack", "readH", "ack", "merge", "go",
      "ack", "prun", "wait">>

Steps(k) ==
    CASE k = "upload" -> UploadSteps
      [] k = "plain" -> PlainSteps
      [] k = "progress" -> ProgressSteps
      [] OTHER -> PreserveSteps

\* Every call starting a process-exit goroutine beside the protocol goroutine.
SpawnedUnits_Both(k) == {"proto", "waiter"}

\* The goroutines each call registers with its wait group.
SpawnedUnits(k) == IF k = "upload" THEN {"proto", "waiter"} ELSE {"proto"}

\* wg.Add(2) in upload, wg.Add(1) in the downloads.
\* A wait group that counts one goroutine in every call.
WgAdd_One(k) == 1

WgAdd(k) == IF k = "upload" THEN 2 ELSE 1

\* An error channel with room for a single value.
ErrChCap_One(k) == IF k = "upload" THEN 1 ELSE 1

ErrChCap(k) == IF k = "upload" THEN ErrChCapUpload ELSE ErrChCapDownload

\* A drain that keeps the error recorded last.
FirstNonNil_Last(ch) == IF Len(ch) = 0 THEN "nil" ELSE ch[Len(ch)]

\* for err := range errCh { if err != nil { return err } }; return nil
FirstNonNil(ch) ==
    IF \E i \in 1..Len(ch) : ch[i] # "nil"
    THEN ch[CHOOSE i \in 1..Len(ch) :
                /\ ch[i] # "nil"
                /\ \A j \in 1..(i - 1) : ch[j] = "nil"]
    ELSE "nil"

\* Number of events of tr that wrote to the session's input stream (in upload
\* the body bytes go there too; in a download they go to the destination).
Written(tr) ==
    Cardinality({i \in 1..Len(tr) :
                    \/ tr[i] \in {"hdr", "ack", "term"}
                    \/ (kind = "upload" /\ tr[i] = "byte")})

\* The step the protocol goroutine is at.
Step == IF pStat = "run" THEN Steps(kind)[pIdx] ELSE "none"

\* The current step succeeded: on to the next, or to the deferred calls.
PAdvance ==
    /\ pIdx' = pIdx + 1
    /\ pStat' = IF pIdx = Len(Steps(kind)) THEN "close" ELSE "run"
    /\ gerr' = "nil"
    /\ UNCHANGED <<pErr, failAt>>

\* The current step failed with e: errCh <- e; return.  g is the value the
\* goroutine's err variable holds at that point.
PFail(e, g) ==
    /\ pStat' = "send"
    /\ pErr' = e
    /\ gerr' = g
    /\ pIdx' = pIdx
    /\ failAt' = IF failAt = -1 THEN Written(trace') ELSE failAt

-----------------------------------------------------------------------------
(* The state when a transfer call is entered.                                *)

\* The two concurrent progress transfers sharing the package variable p.
Xfers == {1, 2}

\* Neither of the two concurrent transfers is under way.
SharedIdle ==
    /\ p = 0
    /\ xPc = [t \in Xfers |-> "off"]
    /\ xRan = [t \in Xfers |-> 0]
    /\ xBody = [t \in Xfers |-> "none"]
    /\ xLeft = [t \in Xfers |-> 0]
    /\ delivered = {}

\* No progressWriter is under observation.
PwIdle ==
    /\ total = 0
    /\ onProgress = FALSE
    /\ downloaded = 0
    /\ chunks = <<>>
    /\ calls = <<>>

Init ==
    /\ kind \in Kinds
    /\ size \in 0..MaxSize
    /\ srcLen \in (IF kind = "upload" THEN 0..(MaxSize + 1) ELSE {0})
    /\ timeoutSet \in BOOLEAN
    /\ peerAnswers \in BOOLEAN
    /\ ctxDone = FALSE
    /\ callerCtxDone = FALSE
    /\ timer = "off"
    /\ cPc = "setup"
    /\ result = "none"
    /\ pStat = "idle"
    /\ pIdx = 0
    /\ pErr = "nil"
    /\ gerr = "nil"
    /\ inDefer = FALSE
    /\ wStat = "none"
    /\ exitStatus = "none"
    /\ bStat = "none"
    /\ copied = 0
    /\ hStat = "none"
    /\ wg = 0
    /\ errCh = <<>>
    /\ errChClosed = FALSE
    /\ sent = <<>>
    /\ trace = <<>>
    /\ resps = <<>>
    /\ stdinClosed = FALSE
    /\ failAt = -1
    /\ SharedIdle
    /\ PwIdle

-----------------------------------------------------------------------------
(* The context.                                                              *)

\* The caller's context is cancelled, or its deadline passes.
CtxFire ==
    /\ ~callerCtxDone
    /\ cPc \notin {"done", "osexit"}
    /\ callerCtxDone' = TRUE
    /\ ctxDone' = TRUE
    /\ timer' = timer
    /\ UNCHANGED <<inputVars, auxVars, callerVars, protoVars, waiterVars, bStat, copied,
                   hStat, wg, chanVars, histVars, stdinClosed>>

\* The deadline set by context.WithTimeout(ctx, a.Timeout) passes: the derived
\* context is done; the caller's own context is not touched.
TimerFire ==
    /\ timer = "armed"
    /\ timer' = "fired"
    /\ ctxDone' = TRUE
    /\ UNCHANGED <<inputVars, auxVars, callerCtxDone, callerVars, protoVars, waiterVars,
                   bStat, copied, hStat, wg, chanVars, histVars, stdinClosed>>

\* The deferred cancel() of the derived context, run when the call returns:
\* a deadline still pending is stopped.
CancelTimer(t) == IF t = "armed" THEN "stopped" ELSE t

-----------------------------------------------------------------------------
(* The calling goroutine.                                                    *)

\* NewSession (and, in upload, StdoutPipe and StdinPipe): an error returns at
\* once, before anything is spawned.
Setup ==
    /\ cPc = "setup"
    /\ \E o \in (IF kind = "upload" THEN {"ok", "sessErr", "pipeErr"}
                                    ELSE {"ok", "sessErr"}) :
          IF o = "ok"
          THEN /\ cPc' = IF kind = "upload" THEN "start" ELSE "spawn"
               /\ result' = result
          ELSE /\ cPc' = "done"
               /\ result' = o
    /\ UNCHANGED <<inputVars, auxVars, ctxVars, ctxDone, protoVars, waiterVars, bStat, copied,
                   hStat, wg, chanVars, histVars, stdinClosed>>

\* Upload: session.Start in the calling goroutine; an error returns at once
\* (the deferred w.Close() runs).
StartCmd ==
    /\ cPc = "start"
    /\ \E ok \in BOOLEAN :
          IF ok
          THEN /\ cPc' = "spawn"
               /\ UNCHANGED <<result, stdinClosed>>
          ELSE /\ cPc' = "done"
               /\ result' = "startErr"
               /\ stdinClosed' = TRUE
    /\ UNCHANGED <<inputVars, auxVars, ctxVars, ctxDone, protoVars, waiterVars, bStat, copied,
                   hStat, wg, chanVars, histVars>>

\* wg.Add, make(chan error, n) and the go statements.
Spawn ==
    /\ cPc = "spawn"
    /\ cPc' = "callwait"
    /\ wg' = WgAdd(kind)
    /\ pStat' = IF "proto" \in SpawnedUnits(kind) THEN "run" ELSE pStat
    /\ pIdx' = 1
    /\ wStat' = IF "waiter" \in SpawnedUnits(kind) THEN "wait" ELSE wStat
    /\ UNCHANGED <<inputVars, auxVars, ctxVars, ctxDone, result, pErr, gerr, inDefer, exitStatus,
                   bStat, copied, hStat, chanVars, histVars, stdinClosed>>

\* if a.Timeout > 0 { ctx, cancel = context.WithTimeout(ctx, a.Timeout) }:
\* a derived context of an already done context is done at once.
ArmTimer(on) == IF on /\ ~ctxDone THEN "armed" ELSE "off"

\* The timeout is set up, then wait(&wg, ctx) is called: it starts the helper
\* goroutine.
EnterWait ==
    /\ cPc = "callwait"
    /\ cPc' = "select"
    /\ hStat' = "waiting"
    /\ timer' = ArmTimer(timeoutSet)
    /\ UNCHANGED <<inputVars, auxVars, callerCtxDone, ctxDone, result, protoVars, waiterVars, bStat,
                   copied, wg, chanVars, histVars, stdinClosed>>

\* The helper goroutine of wait(): wg.Wait() returned, close(c).
HelperClose ==
    /\ hStat = "waiting"
    /\ wg = 0
    /\ hStat' = "closed"
    /\ UNCHANGED <<inputVars, auxVars, ctxVars, ctxDone, callerVars, protoVars, waiterVars, bStat,
                   copied, wg, chanVars, histVars, stdinClosed>>

\* select, case <-c: wait returns nil.
SelectDone ==
    /\ cPc = "select"
    /\ hStat = "closed"
    /\ cPc' = "collect"
    /\ UNCHANGED <<inputVars, auxVars, ctxVars, ctxDone, result, protoVars, waiterVars, bStat,
                   copied, hStat, wg, chanVars, histVars, stdinClosed>>

\* A wait that honours the context only once the wait group is done.
SelectCtxReady_AfterUnits == ctxDone /\ hStat = "closed"

\* A wait on the caller's own context, the derived one being dropped.
SelectCtxReady_CallerOnly == callerCtxDone

\* What the select's ctx case requires of the state.
SelectCtxReady == ctxDone

\* select, case <-ctx.Done(): wait returns ctx.Err() and the call returns it
\* (upload's deferred w.Close() runs).
SelectCtx ==
    /\ cPc = "select"
    /\ SelectCtxReady
    /\ cPc' = "done"
    /\ result' = "ctxErr"
    /\ timer' = CancelTimer(timer)
    /\ stdinClosed' = IF kind = "upload" THEN TRUE ELSE stdinClosed
    /\ UNCHANGED <<inputVars, auxVars, callerCtxDone, ctxDone, protoVars, waiterVars, bStat, copied,
                   hStat, wg, chanVars, histVars>>

\* The error the call returns once wait returned nil: upload ranges over the
\* closed channel; a download receives one value.
\* A download that returns the value sent last.
Collected_Last(k, ch) ==
    IF k = "upload" THEN FirstNonNil(ch) ELSE ch[Len(ch)]

Collected(k, ch) == IF k = "upload" THEN FirstNonNil(ch) ELSE Head(ch)

\* After wait returned nil.  Upload: close(errCh), then range over it.
\* Download: finalErr := <-errCh (blocks while the channel is empty), then
\* close(errCh).
Collect ==
    /\ cPc = "collect"
    /\ kind = "upload" \/ Len(errCh) > 0
    /\ result' = Collected(kind, errCh)
    /\ errCh' = IF kind = "upload" THEN <<>> ELSE Tail(errCh)
    /\ errChClosed' = TRUE
    /\ cPc' = "done"
    /\ timer' = CancelTimer(timer)
    /\ stdinClosed' = IF kind = "upload" THEN TRUE ELSE stdinClosed
    /\ UNCHANGED <<inputVars, auxVars, callerCtxDone, ctxDone, protoVars, waiterVars, bStat, copied,
                   hStat, wg, sent, histVars>>

-----------------------------------------------------------------------------
(* The protocol goroutine.                                                   *)

\* Upload: fmt.Fprintln(w, "C"+permissions, size, filename).
WriteHeader ==
    /\ Step = "hdr"
    /\ \E ok \in BOOLEAN :
          IF ok
          THEN /\ trace' = Append(trace, "hdr")
               /\ PAdvance
          ELSE /\ trace' = trace
               /\ PFail("writeErr", "writeErr")
    /\ UNCHANGED <<inputVars, auxVars, ctxVars, ctxDone, callerVars, inDefer, waiterVars, bStat,
                   copied, hStat, wg, chanVars, resps, stdinClosed>>

\* Upload: checkResponse(stdout), after the header and after the terminator.
\* A read of the session's output stream returns once the peer has written a
\* line or the stream has ended (the remote process has exited); until then
\* it blocks.
CanRead == peerAnswers \/ exitStatus # "none"

\* What such a read can return: a silent peer's stream can only end.
Readable == IF peerAnswers THEN ReadOutcomes ELSE {"readErr"}

\* A protocol goroutine that never closes the input stream.
DeferClose_Leak(k, closed, registered) == closed

\* defer w.Close() (upload); defer in.Close(), once registered (download).
DeferClose(k, closed, registered) ==
    IF k = "upload" THEN TRUE ELSE (closed \/ registered)

CheckResp ==
    /\ Step = "resp"
    /\ CanRead
    /\ \E o \in Readable :
          /\ resps' = Append(resps, o)
          /\ trace' = IF o = "readErr" THEN trace ELSE Append(trace, "read")
          /\ IF checkResponse(o) = "nil"
             THEN PAdvance
             ELSE PFail(checkResponse(o), checkResponse(o))
    /\ UNCHANGED <<inputVars, auxVars, ctxVars, ctxDone, callerVars, inDefer, waiterVars, bStat,
                   copied, hStat, wg, chanVars, stdinClosed>>

\* The body copy made in the protocol goroutine itself (upload: io.Copy;
\* plain download: CopyN) moves one more byte.
CopyByte ==
    /\ Step = "body"
    /\ copied < CopyLimit
    /\ copied' = copied + 1
    /\ trace' = Append(trace, "byte")
    /\ UNCHANGED <<inputVars, auxVars, ctxVars, ctxDone, callerVars, protoVars, waiterVars, bStat,
                   hStat, wg, chanVars, resps, failAt, stdinClosed>>

\* That body copy fails: a read or write error, or (CopyN) a stream that ends
\* before the declared size.  A CopyN of no bytes left has nothing to fail on.
CopyFail ==
    /\ Step = "body"
    /\ kind = "upload" \/ copied < CopyLimit
    /\ trace' = trace
    /\ PFail("copyErr", "copyErr")
    /\ UNCHANGED <<inputVars, auxVars, ctxVars, ctxDone, callerVars, inDefer, waiterVars, bStat,
                   copied, hStat, wg, chanVars, resps, stdinClosed>>

\* That body copy returns nil.
CopyDone ==
    /\ Step = "body"
    /\ copied = CopyLimit
    /\ PAdvance
    /\ UNCHANGED <<inputVars, auxVars, ctxVars, ctxDone, callerVars, inDefer, waiterVars, bStat,
                   copied, hStat, wg, chanVars, trace, resps, stdinClosed>>

\* Upload: fmt.Fprint(w, "\x00").
WriteTerm ==
    /\ Step = "term"
    /\ \E ok \in BOOLEAN :
          IF ok
          THEN /\ trace' = Append(trace, "term")
               /\ PAdvance
          ELSE /\ trace' = trace
               /\ PFail("writeErr", "writeErr")
    /\ UNCHANGED <<inputVars, auxVars, ctxVars, ctxDone, callerVars, inDefer, waiterVars, bStat,
                   copied, hStat, wg, chanVars, resps, stdinClosed>>

\* Download: session.StdoutPipe() and session.StdinPipe(); defer in.Close()
\* is registered only when both succeeded.
Pipes ==
    /\ Step = "pipes"
    /\ trace' = trace
    /\ \E o \in {"ok", "stdoutErr", "stdinErr"} :
          IF o = "ok"
          THEN /\ inDefer' = TRUE
               /\ PAdvance
          ELSE /\ inDefer' = FALSE
               /\ PFail("pipeErr", "pipeErr")
    /\ UNCHANGED <<inputVars, auxVars, ctxVars, ctxDone, callerVars, waiterVars, bStat, copied,
                   hStat, wg, chanVars, resps, stdinClosed>>

\* Download: session.Start in the protocol goroutine.
StartRemote ==
    /\ Step = "start"
    /\ trace' = trace
    /\ \E ok \in BOOLEAN :
          IF ok THEN PAdvance ELSE PFail("startErr", "startErr")
    /\ UNCHANGED <<inputVars, auxVars, ctxVars, ctxDone, callerVars, inDefer, waiterVars, bStat,
                   copied, hStat, wg, chanVars, resps, stdinClosed>>

\* Download: Ack(in) writes one 0x00 byte.
AckStep ==
    /\ Step = "ack"
    /\ \E ok \in BOOLEAN :
          IF ok
          THEN /\ trace' = Append(trace, "ack")
               /\ PAdvance
          ELSE /\ trace' = trace
               /\ PFail("writeErr", "writeErr")
    /\ UNCHANGED <<inputVars, auxVars, ctxVars, ctxDone, callerVars, inDefer, waiterVars, bStat,
                   copied, hStat, wg, chanVars, resps, stdinClosed>>

\* Preserve mode: ParseResponse, the failure check and ParseFileTime for the
\* timestamp line.  A failure response leaves err nil: ParseResponse succeeded.
ReadTime ==
    /\ Step = "readT"
    /\ CanRead
    /\ \E o \in Readable :
          /\ resps' = Append(resps, o)
          /\ trace' = IF o = "readErr" THEN trace ELSE Append(trace, "read")
          /\ IF o = "readErr" THEN PFail("readErr", "readErr")
             ELSE IF TimeLineAborts(o) THEN PFail("peerMsg", "nil")
             ELSE IF ParseFileTime(o) # "nil"
                  THEN PFail(ParseFileTime(o), ParseFileTime(o))
             ELSE PAdvance
    /\ UNCHANGED <<inputVars, auxVars, ctxVars, ctxDone, callerVars, inDefer, waiterVars, bStat,
                   copied, hStat, wg, chanVars, stdinClosed>>

\* Download: ParseResponse, the failure check and ParseFileInfos for the
\* header line.
ReadHeader ==
    /\ Step = "readH"
    /\ CanRead
    /\ \E o \in Readable :
          /\ resps' = Append(resps, o)
          /\ trace' = IF o = "readErr" THEN trace ELSE Append(trace, "read")
          /\ IF o = "readErr" THEN PFail("readErr", "readErr")
             ELSE IF HeaderAborts(kind, o) THEN PFail("peerMsg", "nil")
             ELSE IF ParseFileInfos(o) # "nil"
                  THEN PFail(ParseFileInfos(o), ParseFileInfos(o))
             ELSE PAdvance
    /\ UNCHANGED <<inputVars, auxVars, ctxVars, ctxDone, callerVars, inDefer, waiterVars, bStat,
                   copied, hStat, wg, chanVars, stdinClosed>>

\* Preserve mode: infos.Update(timeInfo) merges the timestamp line's values
\* into the FileInfos parsed from the header line.
Merge ==
    /\ Step = "merge"
    /\ trace' = Append(trace, "merge")
    /\ PAdvance
    /\ UNCHANGED <<inputVars, auxVars, ctxVars, ctxDone, callerVars, inDefer, waiterVars, bStat,
                   copied, hStat, wg, chanVars, resps, stdinClosed>>

\* Progress variants: build the progressWriter and the display program, then
\* "go pw.Start()".  The check of err that follows reads the err of the
\* preceding Ack, not the copy's.
SpawnBody ==
    /\ Step = "go"
    /\ bStat' = "copy"
    /\ trace' = trace
    /\ IF gerr # "nil" THEN PFail(gerr, gerr) ELSE PAdvance
    /\ UNCHANGED <<inputVars, auxVars, ctxVars, ctxDone, callerVars, inDefer, waiterVars, copied,
                   hStat, wg, chanVars, resps, stdinClosed>>

\* Progress variants: p.Run() returns when the display quits; if it fails the
\* process exits (os.Exit(1)) and nothing runs any more.
PRun ==
    /\ Step = "prun"
    /\ \E ok \in BOOLEAN :
          IF ok
          THEN /\ PAdvance
               /\ UNCHANGED <<cPc, bStat, hStat>>
          ELSE /\ pStat' = "osexit"
               /\ cPc' = "osexit"
               /\ bStat' = "osexit"
               /\ hStat' = "osexit"
               /\ UNCHANGED <<pIdx, pErr, gerr, failAt>>
    /\ UNCHANGED <<inputVars, auxVars, ctxVars, ctxDone, result, inDefer, waiterVars, copied, wg,
                   chanVars, trace, resps, stdinClosed>>

\* Download: session.Wait() in the protocol goroutine, after the last ack.
SessWait ==
    /\ Step = "wait"
    /\ trace' = Append(trace, "wait")
    /\ \E ok \in BOOLEAN :
          IF ok
          THEN /\ exitStatus' = "nil"
               /\ PAdvance
          ELSE /\ exitStatus' = "exitErr"
               /\ PFail("exitErr", "exitErr")
    /\ UNCHANGED <<inputVars, auxVars, ctxVars, ctxDone, callerVars, inDefer, wStat, bStat, copied,
                   hStat, wg, chanVars, resps, stdinClosed>>

\* errCh <- err at the failing step.  A send blocks while the buffer is full
\* and panics on a closed channel.
SendErr ==
    /\ pStat = "send"
    /\ errChClosed \/ Len(errCh) < ErrChCap(kind)
    /\ IF errChClosed
       THEN /\ pStat' = "panic"
            /\ UNCHANGED <<errCh, sent>>
       ELSE /\ pStat' = "close"
            /\ errCh' = Append(errCh, pErr)
            /\ sent' = Append(sent, <<"proto", pErr>>)
    /\ UNCHANGED <<inputVars, auxVars, ctxVars, ctxDone, callerVars, pIdx, pErr, gerr, inDefer,
                   waiterVars, bStat, copied, hStat, wg, errChClosed, histVars,
                   stdinClosed>>

\* The deferred Close of the session's input stream: upload's defer w.Close(),
\* a download's defer in.Close() when it was registered.
CloseIn ==
    /\ pStat = "close"
    /\ stdinClosed' = DeferClose(kind, stdinClosed, inDefer)
    /\ pStat' = IF kind = "upload" THEN "wgdone" ELSE "dsend"
    /\ UNCHANGED <<inputVars, auxVars, ctxVars, ctxDone, callerVars, pIdx, pErr, gerr, inDefer,
                   waiterVars, bStat, copied, hStat, wg, chanVars, histVars>>

\* Download: the deferred function's errCh <- err.
DeferSend ==
    /\ pStat = "dsend"
    /\ errChClosed \/ Len(errCh) < ErrChCap(kind)
    /\ IF errChClosed
       THEN /\ pStat' = "panic"
            /\ UNCHANGED <<errCh, sent>>
       ELSE /\ pStat' = "wgdone"
            /\ errCh' = Append(errCh, gerr)
            /\ sent' = Append(sent, <<"proto", gerr>>)
    /\ UNCHANGED <<inputVars, auxVars, ctxVars, ctxDone, callerVars, pIdx, pErr, gerr, inDefer,
                   waiterVars, bStat, copied, hStat, wg, errChClosed, histVars,
                   stdinClosed>>

\* wg.Done() of the protocol goroutine.
WgDone ==
    /\ pStat = "wgdone"
    /\ pStat' = "done"
    /\ wg' = wg - 1
    /\ UNCHANGED <<inputVars, auxVars, ctxVars, ctxDone, callerVars, pIdx, pErr, gerr, inDefer,
                   waiterVars, bStat, copied, hStat, chanVars, histVars,
                   stdinClosed>>

-----------------------------------------------------------------------------
(* Progress variants: the goroutine of "go pw.Start()".                      *)

\* CopyN(pw.file, io.TeeReader(pw.reader, pw), pw.total) moves one more byte.
BCopyByte ==
    /\ bStat = "copy"
    /\ copied < CopyLimit
    /\ copied' = copied + 1
    /\ trace' = Append(trace, "byte")
    /\ UNCHANGED <<inputVars, auxVars, ctxVars, ctxDone, callerVars, protoVars, waiterVars, bStat,
                   hStat, wg, chanVars, resps, failAt, stdinClosed>>

\* The copy fails: p.Send(progressErrMsg{err}); Start's result is dropped.
BCopyFail ==
    /\ bStat = "copy"
    /\ copied < CopyLimit
    /\ bStat' = "failed"
    /\ failAt' = IF failAt = -1 THEN Written(trace) ELSE failAt
    /\ UNCHANGED <<inputVars, auxVars, ctxVars, ctxDone, callerVars, protoVars, waiterVars, copied,
                   hStat, wg, chanVars, trace, resps, stdinClosed>>

\* The copy returns nil.
BCopyDone ==
    /\ bStat = "copy"
    /\ copied = CopyLimit
    /\ bStat' = "done"
    /\ UNCHANGED <<inputVars, auxVars, ctxVars, ctxDone, callerVars, protoVars, waiterVars, copied,
                   hStat, wg, chanVars, histVars, stdinClosed>>

-----------------------------------------------------------------------------
(* Upload: the goroutine that waits for the remote process to exit.          *)

\* session.Wait() returns.
WaiterExit ==
    /\ wStat = "wait"
    /\ \E ok \in BOOLEAN :
          IF ok
          THEN /\ exitStatus' = "nil"
               /\ wStat' = "wgdone"
          ELSE /\ exitStatus' = "exitErr"
               /\ wStat' = "send"
    /\ UNCHANGED <<inputVars, auxVars, ctxVars, ctxDone, callerVars, protoVars, bStat, copied,
                   hStat, wg, chanVars, histVars, stdinClosed>>

\* errCh <- err.
WaiterSend ==
    /\ wStat = "send"
    /\ errChClosed \/ Len(errCh) < ErrChCap(kind)
    /\ IF errChClosed
       THEN /\ wStat' = "panic"
            /\ UNCHANGED <<errCh, sent>>
       ELSE /\ wStat' = "wgdone"
            /\ errCh' = Append(errCh, exitStatus)
            /\ sent' = Append(sent, <<"waiter", exitStatus>>)
    /\ UNCHANGED <<inputVars, auxVars, ctxVars, ctxDone, callerVars, protoVars, exitStatus, bStat,
                   copied, hStat, wg, errChClosed, histVars, stdinClosed>>

\* wg.Done() of the process-exit goroutine.
WaiterDone ==
    /\ wStat = "wgdone"
    /\ wStat' = "done"
    /\ wg' = wg - 1
    /\ UNCHANGED <<inputVars, auxVars, ctxVars, ctxDone, callerVars, protoVars, exitStatus, bStat,
                   copied, hStat, chanVars, histVars, stdinClosed>>

-----------------------------------------------------------------------------

Next ==
    \/ CtxFire
    \/ TimerFire
    \/ Setup
    \/ StartCmd
    \/ Spawn
    \/ EnterWait
    \/ HelperClose
    \/ SelectDone
    \/ SelectCtx
    \/ Collect
    \/ WriteHeader
    \/ CheckResp
    \/ CopyByte
    \/ CopyFail
    \/ CopyDone
    \/ WriteTerm
    \/ Pipes
    \/ StartRemote
    \/ AckStep
    \/ ReadTime
    \/ ReadHeader
    \/ Merge
    \/ SpawnBody
    \/ PRun
    \/ SessWait
    \/ SendErr
    \/ CloseIn
    \/ DeferSend
    \/ WgDone
    \/ BCopyByte
    \/ BCopyFail
    \/ BCopyDone
    \/ WaiterExit
    \/ WaiterSend
    \/ WaiterDone

Spec == Init /\ [][Next]_vars

TypeOK ==
    /\ kind \in Kinds
    /\ peerAnswers \in BOOLEAN
    /\ size \in 0..MaxSize
    /\ copied \in 0..(MaxSize + 1)
    /\ wg \in 0..2
    /\ Len(errCh) <= ErrChCap(kind)
    /\ pStat \in {"idle", "run", "send", "close", "dsend", "wgdone", "done",
                  "osexit"}
    /\ wStat \in {"none", "wait", "send", "wgdone", "done"}

-----------------------------------------------------------------------------
(* Properties.                                                               *)

\* Every supervised goroutine has called wg.Done().
AllUnitsDone == wg = 0

\* C1: in every transfer call, once ctx is done the return of ctx.Err() is
\* enabled whenever the caller is in wait's select, whatever the supervised
\* goroutines are doing; and a return made while a supervised goroutine has
\* not completed returns ctx.Err() and waits for none of them (their state is
\* left as it was).
C1_CancelReturnsWithoutWaiting ==
    /\ []((cPc = "select" /\ ctxDone) => ENABLED SelectCtx)
    /\ [][(cPc = "select" /\ ~AllUnitsDone /\ cPc' = "done")
            => /\ ctxDone
               /\ result' = "ctxErr"
               /\ UNCHANGED <<pStat, pIdx, wStat, bStat, wg>>]_vars

\* C1 witness: an upload returned ctx.Err() while the protocol goroutine is
\* still in the middle of its steps and the process-exit goroutine still waits.
C1_Witness ==
    /\ kind = "upload"
    /\ cPc = "done"
    /\ result = "ctxErr"
    /\ pStat = "run"
    /\ Step = "body"
    /\ wStat = "wait"

\* The upload's protocol goroutine went through all five steps without error.
UploadProtocolOk == kind = "upload" /\ pIdx = Len(UploadSteps) + 1

\* C2: an upload whose wait returned nil (both goroutines completed and the
\* select took the completion case) returns the error recorded first on the
\* error channel, and returns nil exactly when nothing was recorded, that is
\* when all five protocol steps succeeded and session.Wait returned nil.  A
\* call that returns after the goroutines were spawned with ctx not done has
\* taken that path.
C2_UploadReturnsFirstError ==
    (kind = "upload" /\ cPc = "done")
        => /\ (~ctxDone /\ pStat # "idle") => errChClosed
           /\ errChClosed =>
                /\ \A i \in 1..Len(sent) : sent[i][2] # "nil"
                /\ result = IF sent = <<>> THEN "nil" ELSE sent[1][2]
                /\ (result = "nil") <=> (UploadProtocolOk /\ exitStatus = "nil")

\* C2 witness: both goroutines recorded an error, the process-exit goroutine
\* first, and the call returned that one.
C2_Witness ==
    /\ kind = "upload"
    /\ cPc = "done"
    /\ errChClosed
    /\ ~ctxDone
    /\ Len(sent) = 2
    /\ sent[1] = <<"waiter", "exitErr">>
    /\ sent[2][2] = "copyErr"
    /\ result = "exitErr"

\* The goroutines the call has started under its wait group.
Supervised ==
    (IF pStat # "idle" THEN {"proto"} ELSE {})
        \cup (IF wStat # "none" THEN {"waiter"} ELSE {})

\* Those of them that have not called wg.Done() yet.
Unsignalled ==
    (IF pStat \notin {"idle", "done"} THEN {"proto"} ELSE {})
        \cup (IF wStat \notin {"none", "done"} THEN {"waiter"} ELSE {})

\* C3 as stated: every transfer call, upload and download alike, runs exactly
\* two supervised goroutines, the protocol one and a process-exit one, both
\* counted by the wait group.
C3_TwoUnitsEveryCall ==
    (pStat # "idle")
        => /\ Supervised = {"proto", "waiter"}
           /\ wg = Cardinality(Unsignalled)

\* C3 amended: upload runs exactly two supervised goroutines (protocol and
\* process exit), both counted by the wait group; every download variant runs
\* exactly one, counted once, and that goroutine calls session.Wait itself,
\* only at its last step, after every protocol step before it succeeded.
C3_UnitsPerCall ==
    (pStat # "idle")
        => /\ Supervised = IF kind = "upload" THEN {"proto", "waiter"}
                                              ELSE {"proto"}
           /\ wg = Cardinality(Unsignalled)
           /\ (kind # "upload" /\ exitStatus # "none")
                 => /\ pIdx >= Len(Steps(kind))
                    /\ Steps(kind)[Len(Steps(kind))] = "wait"

\* C3 witness: a plain download observed the process exit in its only
\* supervised goroutine, which has not signalled the wait group yet.
C3_Witness ==
    /\ kind = "plain"
    /\ exitStatus = "nil"
    /\ Supervised = {"proto"}
    /\ wg = 1
    /\ pStat = "close"

\* C4: in upload, when the response to the header line is a failure, or
\* reading it fails, the protocol goroutine stops there: no payload byte and
\* no terminator is ever written, no further response is read, and the error
\* it records is the peer's message (the read error when reading failed).
C4_HeaderFailureStopsUpload ==
    (kind = "upload" /\ Len(resps) >= 1 /\ resps[1] \in {"fail", "readErr"})
        => /\ Len(resps) = 1
           /\ \A i \in 1..Len(trace) : trace[i] \notin {"byte", "term"}
           /\ copied = 0
           /\ pStat # "run"
           /\ pErr = IF resps[1] = "fail" THEN "peerMsg" ELSE "readErr"
           /\ pStat # "send" => sent # <<>> /\ \E i \in 1..Len(sent) :
                                                  sent[i] = <<"proto", pErr>>

\* C4 witness: the header was refused with a failure response; the upload
\* returned the peer's message.
C4_Witness ==
    /\ kind = "upload"
    /\ resps = <<"fail">>
    /\ trace = <<"hdr", "read">>
    /\ pStat = "done"
    /\ cPc = "done"
    /\ result = "peerMsg"

\* C5: in upload, when the terminator is written, the number of payload bytes
\* written before it is the size declared in the header line.
C5_BodyIsDeclaredSize ==
    (kind = "upload" /\ \E i \in 1..Len(trace) : trace[i] = "term")
        => copied = size

\* C6: in upload, when the source ends after fewer bytes than declared, the
\* body copy reports an error: the protocol goroutine records it, writes no
\* terminator, and the call does not return nil.
C6_ShortSourceIsError ==
    (kind = "upload" /\ srcLen < size /\ copied = srcLen /\ pIdx >= 3
                     /\ Step # "body")
        => /\ pErr # "nil"
           /\ \A i \in 1..Len(trace) : trace[i] # "term"
           /\ cPc = "done" => result # "nil"

\* C7: in every transfer call, once a read, a write, the body copy or a
\* response has failed, no further protocol byte is written to the session's
\* input stream, and the call, when it returns, returns a non-nil error.
C7_FailureTerminates ==
    (failAt # -1)
        => /\ Written(trace) = failAt
           /\ cPc = "done" => result # "nil"

\* Number of acks the client has written.
AcksWritten == Cardinality({i \in 1..Len(trace) : trace[i] = "ack"})

\* Number of acks in a download's steps.
NumAcks(k) == Cardinality({i \in 1..Len(Steps(k)) : Steps(k)[i] = "ack"})

\* C8: in the progress variants the final ack is written only after all
\* size body bytes have been copied to the destination.
C8_FinalAckAfterBody ==
    (kind \in ProgressKinds /\ AcksWritten = NumAcks(kind))
        => copied = size

IsPrefix(a, b) == Len(a) <= Len(b) /\ \A i \in 1..Len(a) : a[i] = b[i]

\* The events of a complete plain download of n body bytes.
PlainOrder(n) ==
    <<"ack", "read", "ack">> \o [i \in 1..n |-> "byte"] \o <<"ack", "wait">>

\* C9: a plain download's events always follow the order ack, header read,
\* ack, size body bytes, ack, process exit awaited (every run is a prefix of
\* it, read possibly missing when reading failed), and a run that returns nil
\* has performed exactly that sequence: three acks, the first before anything
\* is read, the body after the second.
C9_PlainDownloadOrder ==
    (kind = "plain")
        => /\ IsPrefix(trace, PlainOrder(size))
           /\ (cPc = "done" /\ result = "nil")
                 => /\ trace = PlainOrder(size)
                    /\ AcksWritten = 3
                    /\ copied = size

\* C9 witness: a plain download of MaxSize bytes returned nil.
C9_Witness ==
    /\ kind = "plain"
    /\ size = MaxSize
    /\ cPc = "done"
    /\ result = "nil"
    /\ trace = PlainOrder(MaxSize)

\* Index of the timestamp-line read among the preserve-mode steps.
TimeIdx == CHOOSE i \in 1..Len(PreserveSteps) : PreserveSteps[i] = "readT"

PreserveOrder(n) ==
    <<"ack", "read", "ack", "read", "ack", "merge">>
        \o [i \in 1..n |-> "byte"] \o <<"ack", "wait">>

\* C11: a preserve-mode download's events follow the order ack, timestamp
\* line read, ack, header line read, ack, body, ack (four acks), with the
\* timestamp values merged into the FileInfos after both lines were parsed and
\* before any body byte is copied: every run is a prefix of that sequence.
C11_PreserveOrder ==
    (kind = "preserve") => IsPrefix(trace, PreserveOrder(size))

\* The scheduler runs a goroutine whose select has a ready case.
FairSpec == Spec /\ WF_vars(SelectCtx \/ SelectDone)

\* C12: with Timeout > 0 the call waits on a context that is done as soon as
\* the caller's context or the timeout fires, whichever is first: from then on
\* the ctx.Err() return is enabled in wait's select and the caller leaves the
\* select even if no supervised goroutine ever completes.  The deadline
\* belongs to the one call: it exists only with Timeout > 0, its firing never
\* marks the caller's own context done, and it is never left pending once
\* the call has returned.
C12_TimeoutBoundsCall ==
    /\ [](ctxDone <=> (callerCtxDone \/ timer = "fired"))
    /\ []((cPc = "select" /\ (callerCtxDone \/ timer = "fired"))
            => ENABLED SelectCtx)
    /\ (cPc = "select" /\ (callerCtxDone \/ timer = "fired"))
            ~> (cPc # "select")
    /\ [](timer # "off" => timeoutSet)
    /\ [](cPc = "done" => timer # "armed")
    /\ [][timer' # timer => callerCtxDone' = callerCtxDone]_vars

\* C12 witness: the timeout fired while the caller's context was still live
\* and the protocol goroutine was in the middle of its steps; the call
\* returned the context error.
C12_Witness ==
    /\ timeoutSet
    /\ timer = "fired"
    /\ ~callerCtxDone
    /\ cPc = "done"
    /\ result = "ctxErr"
    /\ pStat = "run"
    /\ wg > 0

-----------------------------------------------------------------------------
(* Two progress downloads running concurrently, each on its own session.    *)
(* Only the steps that touch the package variable p are kept: the           *)
(* assignment of a new program, the start of the body copy, the messages    *)
(* the body copy sends through p, and p.Run().  The reads and the write of  *)
(* p are unsynchronised; a pointer read yields the value of the last write  *)
(* before it or of a write racing with it, which the interleaving of the    *)
(* steps covers.                                                            *)

transferVars ==
    <<inputVars, ctxDone, ctxVars, callerVars, protoVars, waiterVars, bStat,
      copied, hStat, wg, chanVars, histVars, stdinClosed>>

\* The single transfer of the main specification, parked.
TransferIdle ==
    /\ kind = "progress"
    /\ size = 0
    /\ srcLen = 0
    /\ timeoutSet = FALSE
    /\ peerAnswers = TRUE
    /\ ctxDone = FALSE
    /\ callerCtxDone = FALSE
    /\ timer = "off"
    /\ cPc = "setup"
    /\ result = "none"
    /\ pStat = "idle"
    /\ pIdx = 0
    /\ pErr = "nil"
    /\ gerr = "nil"
    /\ inDefer = FALSE
    /\ wStat = "none"
    /\ exitStatus = "none"
    /\ bStat = "none"
    /\ copied = 0
    /\ hStat = "none"
    /\ wg = 0
    /\ errCh = <<>>
    /\ errChClosed = FALSE
    /\ sent = <<>>
    /\ trace = <<>>
    /\ resps = <<>>
    /\ stdinClosed = FALSE
    /\ failAt = -1

\* Both transfers have parsed their headers (sizes in xLeft) and built their
\* progressWriter; each is about to create its program.
TwoInit ==
    /\ TransferIdle
    /\ PwIdle
    /\ p = 0
    /\ xPc = [t \in Xfers |-> "new"]
    /\ xRan = [t \in Xfers |-> 0]
    /\ xBody = [t \in Xfers |-> "none"]
    /\ xLeft \in [Xfers -> 0..MaxSize]
    /\ delivered = {}

\* The program a Send through the package variable reaches.
SendTarget(t) == p

\* p = tea.NewProgram(m)
NewProgram(t) ==
    /\ xPc[t] = "new"
    /\ p' = t
    /\ xPc' = [xPc EXCEPT ![t] = "go"]
    /\ UNCHANGED <<transferVars, pwVars, xRan, xBody, xLeft, delivered>>

\* go pw.Start()
GoStart(t) ==
    /\ xPc[t] = "go"
    /\ xBody' = [xBody EXCEPT ![t] = "copy"]
    /\ xPc' = [xPc EXCEPT ![t] = "run"]
    /\ UNCHANGED <<transferVars, pwVars, p, xRan, xLeft, delivered>>

\* p.Run(): the program the package variable points at now is run.
RunProgram(t) ==
    /\ xPc[t] = "run"
    /\ xRan' = [xRan EXCEPT ![t] = p]
    /\ xPc' = [xPc EXCEPT ![t] = "done"]
    /\ UNCHANGED <<transferVars, pwVars, p, xBody, xLeft, delivered>>

\* The body copy moves a chunk: Write calls onProgress, which sends a
\* progressMsg through p.
BodyProgress(t) ==
    /\ xBody[t] = "copy"
    /\ xLeft[t] > 0
    /\ xLeft' = [xLeft EXCEPT ![t] = @ - 1]
    /\ delivered' = delivered \cup {<<t, SendTarget(t), "progress">>}
    /\ UNCHANGED <<transferVars, pwVars, p, xPc, xRan, xBody>>

\* The body copy fails: Start sends a progressErrMsg through p.
BodyError(t) ==
    /\ xBody[t] = "copy"
    /\ xLeft[t] > 0
    /\ xBody' = [xBody EXCEPT ![t] = "done"]
    /\ delivered' = delivered \cup {<<t, SendTarget(t), "err">>}
    /\ UNCHANGED <<transferVars, pwVars, p, xPc, xRan, xLeft>>

\* The body copy has moved every byte: Start returns nil.
BodyEnd(t) ==
    /\ xBody[t] = "copy"
    /\ xLeft[t] = 0
    /\ xBody' = [xBody EXCEPT ![t] = "done"]
    /\ UNCHANGED <<transferVars, pwVars, p, xPc, xRan, xLeft, delivered>>

TwoNext ==
    \E t \in Xfers :
        \/ NewProgram(t)
        \/ GoStart(t)
        \/ RunProgram(t)
        \/ BodyProgress(t)
        \/ BodyError(t)
        \/ BodyEnd(t)

TwoSpec == TwoInit /\ [][TwoNext]_vars

\* C13: no shared mutable state crosses transfers: every notification one
\* transfer's body copy produces reaches that transfer's own program, and
\* each transfer runs the program it created itself.
C13_NoSharedState ==
    /\ \A m \in delivered : m[2] = m[1]
    /\ \A t \in Xfers : xRan[t] \in {0, t}

-----------------------------------------------------------------------------
(* progressWriter.Write on its own: one writer, any sequence of chunks.     *)

\* Bounds of the chunk sequences explored.
MaxChunk == 2
MaxWrites == 3

\* A Write that also notifies for a total of 0.
Notifies_NonNegative(tot, cb) == tot >= 0 /\ cb

\* if pw.total > 0 && pw.onProgress != nil
Notifies(tot, cb) == tot > 0 /\ cb

\* float64(pw.downloaded) / float64(pw.total), kept as the exact fraction
\* <<numerator, denominator>>; the rounding of the division is monotone and
\* plays no part in the order of two fractions over the same total.
Ratio(count, tot) == <<count, tot>>

\* f <= g for two fractions with positive denominators.
RatioLeq(f, g) == f[1] * g[2] <= g[1] * f[2]

\* A progressWriter as the download constructs it (downloaded = 0), with any
\* total (0 and negative included) and with or without a callback.
PwInit ==
    /\ TransferIdle
    /\ SharedIdle
    /\ total \in -1..MaxSize
    /\ onProgress \in BOOLEAN
    /\ downloaded = 0
    /\ chunks = <<>>
    /\ calls = <<>>

\* func (pw *progressWriter) Write(p []byte), for a chunk of n bytes.
Write(n) ==
    /\ Len(chunks) < MaxWrites
    /\ downloaded' = downloaded + n
    /\ calls' = IF Notifies(total, onProgress)
                THEN Append(calls, Ratio(downloaded + n, total))
                ELSE calls
    /\ chunks' = Append(chunks, n)
    /\ UNCHANGED <<transferVars, sharedVars, total, onProgress>>

PwNext == \E n \in 0..MaxChunk : Write(n)

PwSpec == PwInit /\ [][PwNext]_vars

\* The sum of the first n chunk lengths.
RECURSIVE PrefixSum(_, _)
PrefixSum(cs, n) == IF n = 0 THEN 0 ELSE PrefixSum(cs, n - 1) + cs[n]

\* C14: over any sequence of chunk writes the running count never decreases
\* and equals the sum of the chunk lengths seen so far; the callback is never
\* invoked when total is 0 or negative or when no callback is set; otherwise
\* the i-th write invokes it with (count after the i-th chunk)/total, and
\* successive values never decrease.
C14_ProgressWriter ==
    /\ [](downloaded = PrefixSum(chunks, Len(chunks)))
    /\ [][downloaded' >= downloaded]_vars
    /\ []((total <= 0 \/ ~onProgress) => calls = <<>>)
    /\ []((total > 0 /\ onProgress) =>
            /\ Len(calls) = Len(chunks)
            /\ \A i \in 1..Len(calls) :
                   calls[i] = <<PrefixSum(chunks, i), total>>
            /\ \A i \in 1..(Len(calls) - 1) : RatioLeq(calls[i], calls[i + 1]))

\* C14 witness: three writes, one of them empty, with a callback and a
\* positive total; the callback saw three values, the last above the first.
C14_Witness ==
    /\ total > 0
    /\ onProgress
    /\ Len(chunks) = 3
    /\ \E i \in 1..3 : chunks[i] = 0
    /\ Len(calls) = 3
    /\ calls[3][1] > calls[1][1]
    /\ downloaded = calls[3][1]

\* Position of the first occurrence of event e in the trace (0: none).
FirstAt(e) ==
    IF \E i \in 1..Len(trace) : trace[i] = e
    THEN CHOOSE i \in 1..Len(trace) :
             trace[i] = e /\ \A j \in 1..(i - 1) : trace[j] # e
    ELSE 0

\* C15: a plain download whose header declares size 0 copies no body byte
\* to the sink, and it awaits the process exit only after all three acks
\* were written (ack, header read, ack, ack); when it returns nil the events
\* were exactly ack, read, ack, ack, wait.
C15_ZeroSizeFullAcks ==
    (kind = "plain" /\ size = 0)
        => /\ copied = 0
           /\ \A i \in 1..Len(trace) : trace[i] # "byte"
           /\ FirstAt("wait") # 0
                 => SubSeq(trace, 1, FirstAt("wait") - 1)
                        = <<"ack", "read", "ack", "ack">>
           /\ (cPc = "done" /\ result = "nil")
                 => /\ trace = <<"ack", "read", "ack", "ack", "wait">>
                    /\ AcksWritten = 3
                    /\ exitStatus = "nil"

\* C15 witness: a plain download of a header declaring size 0 returned nil.
C15_Witness ==
    /\ kind = "plain"
    /\ size = 0
    /\ resps = <<"C">>
    /\ copied = 0
    /\ AcksWritten = 3
    /\ cPc = "done"
    /\ result = "nil"

\* Index of the header-line read among a download's steps, and the position
\* of its outcome among the responses read.
HeaderIdx(k) == CHOOSE i \in 1..Len(Steps(k)) : Steps(k)[i] = "readH"
HeaderResp(k) == IF k = "preserve" THEN 2 ELSE 1

C17_PlainReturnsFirstSent ==
    (kind = "plain" /\ cPc = "done" /\ pStat # "idle")
        => /\ ~ctxDone => errChClosed
           /\ errChClosed =>
                /\ Len(sent) \in 1..2
                /\ result = sent[1][2]
                /\ pErr # "nil" =>
                      /\ Len(sent) = 2
                      /\ sent[1][2] = pErr
                      /\ sent[2][2] = gerr
                      /\ result = pErr
                /\ (result = "peerMsg")
                      <=> (Len(resps) = 1 /\ IsFailure(resps[1]))
                /\ (result = "nil")
                      <=> /\ pErr = "nil"
                          /\ pIdx = Len(PlainSteps) + 1
                          /\ exitStatus = "nil"
                          /\ sent = << <<"proto", "nil">> >>

\* C17 witness: the header line's response was a failure; the goroutine sent
\* the peer's message and then, from the deferred function, nil; the call
\* returned the peer's message.
C17_Witness ==
    /\ kind = "plain"
    /\ cPc = "done"
    /\ errChClosed
    /\ resps = <<"fail">>
    /\ sent = << <<"proto", "peerMsg">>, <<"proto", "nil">> >>
    /\ result = "peerMsg"

\* Index of session.Start among a download goroutine's steps.
StartIdx(k) == CHOOSE i \in 1..Len(Steps(k)) : Steps(k)[i] = "start"

\* session.Start returned nil: in upload the caller is past it, in download
\* the protocol goroutine is.
Started ==
    IF kind = "upload" THEN cPc \notin {"setup", "start"} /\ pStat # "idle"
    ELSE pStat # "idle" /\ pIdx > StartIdx(kind)

\* session.Start returned an error.
StartFailed ==
    IF kind = "upload" THEN result = "startErr"
    ELSE pIdx = StartIdx(kind) /\ pStat # "run" /\ pErr = "startErr"

\* C18 as stated: no protocol byte is written to the session's input stream
\* before session.Start returned nil, and if Start fails the call returns
\* that error with zero bytes written.
C18_NoByteBeforeStart ==
    /\ Written(trace) > 0 => Started
    /\ StartFailed => Written(trace) = 0
    /\ (StartFailed /\ cPc = "done") => result = "startErr"

\* C18, amended: no protocol byte is written before session.Start returned
\* nil, and after a failed Start none is ever written.  In upload the call
\* then returns Start's error.  In download, where Start runs inside the
\* supervised goroutine, the call returns Start's error unless the context
\* is done by the time wait's select runs, in which case it may return the
\* context's error instead.
C18_NoByteBeforeStartUnlessCancelled ==
    /\ Written(trace) > 0 => Started
    /\ StartFailed => Written(trace) = 0
    /\ (StartFailed /\ cPc = "done")
          => /\ result \in {"startErr", "ctxErr"}
             /\ result = "ctxErr" => (kind # "upload" /\ ctxDone)
             /\ errChClosed => result = "startErr"

\* C18 witness: a download whose session.Start failed returned Start's error
\* with nothing written to the input stream.
C18_Witness ==
    /\ kind = "plain"
    /\ StartFailed
    /\ cPc = "done"
    /\ result = "startErr"
    /\ sent = << <<"proto", "startErr">>, <<"proto", "startErr">> >>
    /\ Written(trace) = 0

\* C19: the error channel is closed only after every supervised goroutine has
\* done all its sends (and called wg.Done()), and never by a call that returns
\* the context's error; so no goroutine ever sends on a closed channel, those
\* that finish after a cancelled call returned included.
C19_CloseAfterAllSends ==
    /\ errChClosed
          => /\ wg = 0
             /\ pStat = "done"
             /\ wStat \in {"none", "done"}
             /\ Unsignalled = {}
             /\ cPc = "done"
             /\ result # "ctxErr"
    /\ (cPc = "done" /\ result = "ctxErr") => ~errChClosed
    /\ pStat # "panic"
    /\ wStat # "panic"

\* C19 witness: a cancelled upload returned the context's error; both
\* goroutines have sent their errors and finished, wait's helper is still
\* parked, and the channel, never closed, holds the two values.
C19_Witness ==
    /\ kind = "upload"
    /\ cPc = "done"
    /\ result = "ctxErr"
    /\ hStat = "waiting"
    /\ pStat = "done"
    /\ wStat = "done"
    /\ Len(errCh) = 2
    /\ ~errChClosed

\* Number of sends on the error channel made by goroutine u.
SendsBy(u) == Cardinality({i \in 1..Len(sent) : sent[i][1] = u})

\* C20: the values sent on a call's error channel never outnumber its buffer:
\* in upload each of the two goroutines sends at most once against a capacity
\* of 2, in download the one goroutine sends at most twice against a capacity
\* of 4.  So a goroutine about to send always finds room and never blocks,
\* also after the call returned the context's error and nobody receives.
C20_SendsWithinCapacity ==
    /\ Len(sent) <= ErrChCap(kind)
    /\ ErrChCapUpload = 2 /\ ErrChCapDownload = 4
    /\ kind = "upload"
          => /\ SendsBy("proto") <= 1
             /\ SendsBy("waiter") <= 1
    /\ kind # "upload"
          => /\ SendsBy("proto") <= 2
             /\ SendsBy("waiter") = 0
    /\ (pStat \in {"send", "dsend"} \/ wStat = "send")
          => /\ ~errChClosed
             /\ Len(errCh) < ErrChCap(kind)
    /\ pStat = "send" => ENABLED SendErr
    /\ pStat = "dsend" => ENABLED DeferSend
    /\ wStat = "send" => ENABLED WaiterSend

\* C20 witness: a download returned the context's error; its goroutine
\* failed at a step and sent twice, and both values sit in the channel that
\* nobody will receive from.
C20_Witness ==
    /\ kind # "upload"
    /\ cPc = "done"
    /\ result = "ctxErr"
    /\ pStat = "done"
    /\ Len(sent) = 2
    /\ Len(errCh) = 2
    /\ ~errChClosed

-----------------------------------------------------------------------------
(* Upload alone, with the scheduling a run of the program has: every        *)
(* goroutine that can take a step eventually takes one.  A read of the      *)
(* peer's output is a step only once the peer has answered or exited; the   *)
(* remote process is only known to exit after its input has ended; the      *)
(* context may or may not be cancelled.                                     *)

\* The size argument is only printed into the header line (line 245) and
\* plays no part in what the goroutines do next; it is fixed here, while the
\* source's length, the timeout and the peer's behaviour vary.
UploadInit == Init /\ kind = "upload" /\ size = 0

\* The calling goroutine (CopyPassThru itself, and wait's select).
CallerStep ==
    \/ Setup
    \/ StartCmd
    \/ Spawn
    \/ EnterWait
    \/ SelectDone
    \/ SelectCtx
    \/ Collect

\* The protocol goroutine of upload, its deferred calls included.
UploadProtoStep ==
    \/ WriteHeader
    \/ CheckResp
    \/ CopyByte
    \/ CopyFail
    \/ CopyDone
    \/ WriteTerm
    \/ SendErr
    \/ CloseIn
    \/ WgDone

\* The process-exit goroutine.
WaiterStep ==
    \/ WaiterExit
    \/ WaiterSend
    \/ WaiterDone

\* The peer exits once its input has reached end-of-stream: session.Wait
\* returns.
PeerExitsAtEof == stdinClosed /\ WaiterExit

UploadNext ==
    \/ CtxFire
    \/ TimerFire
    \/ CallerStep
    \/ UploadProtoStep
    \/ WaiterStep
    \/ HelperClose

UploadLiveSpec ==
    /\ UploadInit
    /\ [][UploadNext]_vars
    /\ WF_vars(CallerStep)
    /\ WF_vars(UploadProtoStep)
    /\ WF_vars(HelperClose)
    /\ WF_vars(WaiterSend \/ WaiterDone)
    /\ WF_vars(PeerExitsAtEof)

\* A step that the scheduling above guarantees to happen once it can.
FairStep ==
    \/ CallerStep
    \/ UploadProtoStep
    \/ HelperClose
    \/ WaiterSend
    \/ WaiterDone
    \/ PeerExitsAtEof

\* On every exit path the protocol goroutine closes the session's input
\* stream before it calls wg.Done().
ClosedBeforeDone ==
    /\ [](pStat \in {"wgdone", "done"} => stdinClosed)
    /\ [][(pStat # "done" /\ pStat' = "done")
            => (stdinClosed /\ pStat = "wgdone" /\ wg' = wg - 1)]_vars

\* C21 as stated: in upload the protocol goroutine closes the session's
\* input stream before it signals the wait group, on every exit path; and
\* so, with a peer that exits once its input has ended and fair scheduling,
\* the call eventually returns, cancelled or not: until it has returned some
\* goroutine can always take a step, and in the end it returns.
C21_UploadEventuallyReturns ==
    /\ ClosedBeforeDone
    /\ [](cPc = "done" \/ ENABLED FairStep)
    /\ <>(cPc = "done")

\* C21, amended: the input stream is closed before the wait group is
\* signalled on every exit path; and with a peer that answers what it is
\* sent and exits once its input has ended, and fair scheduling, the call
\* eventually returns, cancelled or not.  (A peer that stays silent leaves
\* the protocol goroutine in its read: the stream is never closed, and only
\* the context can end the call.)
C21_UploadReturnsIfPeerAnswers ==
    /\ ClosedBeforeDone
    /\ [](peerAnswers => (cPc = "done" \/ ENABLED FairStep))
    /\ peerAnswers => <>(cPc = "done")
    /\ [](stdinClosed => <>(wStat \in {"none", "done"}))
    /\ []((~peerAnswers /\ exitStatus = "none" /\ ~ctxDone
            /\ Step = "resp") => ~ENABLED UploadProtoStep)

\* C21 witness: an upload that was never cancelled returned nil: the protocol
\* goroutine finished all five steps and closed the stream, the peer then
\* exited, and the wait group released the caller.
C21_Witness ==
    /\ kind = "upload"
    /\ peerAnswers
    /\ ~ctxDone
    /\ pIdx = Len(UploadSteps) + 1
    /\ pStat = "done"
    /\ stdinClosed
    /\ wStat = "done"
    /\ cPc = "done"
    /\ result = "nil"
====
